---- MODULE Spec2Model ----
(***************************************************************************)
(* Model of zlmd.  The fence-escaping transform (src/zlmd/escaper.go):     *)
(* _EscapeMarkdown scans a document line by line, collects each spoiler    *)
(* block and hands it to processSpoilerContent, which rewrites nested      *)
(* backtick fences to tildes.  The block and heading helpers, the table    *)
(* builder and the section builder follow, each with a specification of    *)
(* its own.                                                                *)
(*                                                                         *)
(* Strings are sequences of characters, one string per character.  Go      *)
(* indexes lines from 0; the model indexes them from 1, so the Go test     *)
(* i < len(lines)-1 reads i < Len(lines) here.                             *)
(***************************************************************************)
EXTENDS Integers, Sequences, FiniteSets, TLC

VARIABLES
    markdown,        \* argument of _EscapeMarkdown
    lines,           \* strings.Split(markdown, "\n")
    i,               \* index of the line the top-level loop is at
    result,          \* result strings.Builder of _EscapeMarkdown
    spoilerContent,  \* spoilerContent strings.Builder
    inSpoiler,
    inTopLevelCode,
    spoilerBlock,    \* argument of processSpoilerContent
    sLines,          \* lines of processSpoilerContent
    j,               \* loop index of processSpoilerContent
    sResult,         \* result strings.Builder of processSpoilerContent
    inNestedCode,
    fenceBalance,
    pc,              \* "scan", "sub_check", "sub_loop", "done"
    retText,         \* returned string
    retOk,           \* returned bool
    modes,           \* history: parse state in which each line was scanned
    second,          \* TRUE when this call is applied to a previous result
    procs,           \* concurrent invocations: the locals of each of them
    call,            \* helper call made last: function name and arguments
    value,           \* value the helper call returned
    table,           \* the TableBuilder struct
    section,         \* the Section struct
    history          \* history: the calls made on the Section, in order

vars == <<markdown, lines, i, result, spoilerContent, inSpoiler,
          inTopLevelCode, spoilerBlock, sLines, j, sResult, inNestedCode,
          fenceBalance, pc, retText, retOk, modes, second,
          procs, call, value, table, section, history>>

\* Variables of the other specifications, which a single invocation of
\* _EscapeMarkdown leaves alone.
otherVars == <<procs, call, value, table, section, history>>

escVars == <<result, spoilerContent, inSpoiler, inTopLevelCode>>
subVars == <<spoilerBlock, sLines, j, sResult, inNestedCode, fenceBalance>>
retVars == <<retText, retOk>>

----------------------------------------------------------------------------
(* Bounds and inputs *)

MaxLines == 5

NL == <<"\n">>
\* The backtick character (a string literal cannot hold one in TLA+).
BT == "BT"
Fence == <<BT, BT, BT>>
Tildes == <<"~", "~", "~">>
SpoilerFence == Fence \o <<"s", "p", "o", "i", "l", "e", "r">>

LineSet ==
    { <<>>,                         \* blank line
      <<"x">>,                      \* plain text
      Fence,                        \* bare fence
      Fence \o <<"g">>,             \* fence with a language tag
      SpoilerFence \o <<" ", "h">>, \* spoiler opener
      <<" ">> \o SpoilerFence,      \* spoiler opener with leading blank
      <<" ">> \o Fence \o <<" ">> } \* bare fence between blanks

RECURSIVE Join(_)
Join(ls) ==
    IF Len(ls) = 0 THEN <<>>
    ELSE IF Len(ls) = 1 THEN ls[1]
    ELSE ls[1] \o NL \o Join(Tail(ls))

Docs == { Join(ls) : ls \in UNION { [1..n -> LineSet] : n \in 1..MaxLines } }

----------------------------------------------------------------------------
(* strings package *)

WhiteSpace == {" ", "\t", "\n", "\r", "\f"}

TrimSpace(s) ==
    LET keep == { k \in 1..Len(s) : s[k] \notin WhiteSpace } IN
    IF keep = {} THEN <<>>
    ELSE SubSeq(s, CHOOSE k \in keep : \A m \in keep : k <= m,
                   CHOOSE k \in keep : \A m \in keep : k >= m)

HasPrefix(s, p) == Len(s) >= Len(p) /\ SubSeq(s, 1, Len(p)) = p

TrimPrefix(s, p) == IF HasPrefix(s, p) THEN SubSeq(s, Len(p) + 1, Len(s)) ELSE s

RECURSIVE Split(_)
Split(s) ==
    LET nl == { k \in 1..Len(s) : s[k] = "\n" } IN
    IF nl = {} THEN <<s>>
    ELSE LET k == CHOOSE k \in nl : \A m \in nl : k <= m IN
         <<SubSeq(s, 1, k - 1)>> \o Split(SubSeq(s, k + 1, Len(s)))

----------------------------------------------------------------------------
(* _EscapeMarkdown *)

\* Variant: the newline is added after every line, the last one included.
WithNewlineAlways(line, k, n) == line \o NL

\* WriteString(line) followed by the newline that is added unless the line
\* is the very last line of the input.
WithNewline(line, k, n) == line \o (IF k < n THEN NL ELSE <<>>)

\* Variant: the partial result is returned instead of the input.
OnFailurePartial(md, partial) == partial

\* return markdown, false: the text returned on every failure path, whatever
\* has been written to result so far.
OnFailure(md, partial) == md

\* Variant: only an unclosed spoiler is checked for.
UnclosedSpoilerOnly(spoiler, code) == spoiler

\* Condition of the check for unclosed blocks after the loop.
Unclosed(spoiler, code) == spoiler \/ code

\* Variant: the check for an unclosed nested fence is missing.
NestedOpenIgnored(nested, balance) == FALSE

\* Condition of the check for an unclosed nested fence after the interior loop.
NestedOpen(nested, balance) == nested \/ balance # 0

Mode == IF inSpoiler THEN "InSpoiler"
        ELSE IF inTopLevelCode THEN "InTopLevelCode" ELSE "Outside"

Init ==
    /\ markdown \in Docs
    /\ lines = Split(markdown)
    /\ i = 1
    /\ result = <<>>
    /\ spoilerContent = <<>>
    /\ inSpoiler = FALSE
    /\ inTopLevelCode = FALSE
    /\ spoilerBlock = <<>>
    /\ sLines = <<>>
    /\ j = 0
    /\ sResult = <<>>
    /\ inNestedCode = FALSE
    /\ fenceBalance = 0
    /\ pc = "scan"
    /\ retText = <<>>
    /\ retOk = FALSE
    /\ modes = <<>>
    /\ second = FALSE
    /\ procs = <<>>
    /\ call = <<>>
    /\ value = <<>>
    /\ table = <<>>
    /\ section = <<>>
    /\ history = <<>>

\* Loop body, branch inSpoiler.
ScanInSpoiler ==
    /\ pc = "scan" /\ i <= Len(lines) /\ inSpoiler
    /\ LET line == lines[i]
           trimmedLine == TrimSpace(line) IN
       /\ spoilerContent' = spoilerContent \o WithNewline(line, i, Len(lines))
       /\ modes' = Append(modes, Mode)
       /\ IF trimmedLine = Fence
          THEN /\ inSpoiler' = FALSE
               /\ spoilerBlock' = spoilerContent'
               /\ pc' = "sub_check"
               /\ UNCHANGED i
          ELSE /\ i' = i + 1
               /\ UNCHANGED <<inSpoiler, spoilerBlock, pc>>
    /\ UNCHANGED <<markdown, lines, result, inTopLevelCode, sLines, j,
                   sResult, inNestedCode, fenceBalance, retText, retOk, second>>
    /\ UNCHANGED otherVars

\* Variant: a spoiler opener met inside a top-level code block opens a spoiler.
ScanInTopLevelCodeNesting ==
    /\ pc = "scan" /\ i <= Len(lines) /\ ~inSpoiler /\ inTopLevelCode
    /\ LET line == lines[i]
           trimmedLine == TrimSpace(line) IN
       /\ inTopLevelCode' = (trimmedLine # Fence)
       /\ modes' = Append(modes, Mode)
       /\ IF HasPrefix(trimmedLine, SpoilerFence)
          THEN /\ inSpoiler' = TRUE
               /\ spoilerContent' = WithNewline(line, i, Len(lines))
               /\ UNCHANGED result
          ELSE /\ result' = result \o WithNewline(line, i, Len(lines))
               /\ UNCHANGED <<inSpoiler, spoilerContent>>
    /\ i' = i + 1
    /\ UNCHANGED <<markdown, lines, pc, second>>
    /\ UNCHANGED subVars /\ UNCHANGED retVars
    /\ UNCHANGED otherVars

\* Loop body, branch inTopLevelCode.
ScanInTopLevelCode ==
    /\ pc = "scan" /\ i <= Len(lines) /\ ~inSpoiler /\ inTopLevelCode
    /\ LET line == lines[i]
           trimmedLine == TrimSpace(line) IN
       /\ result' = result \o WithNewline(line, i, Len(lines))
       /\ inTopLevelCode' = (trimmedLine # Fence)
       /\ modes' = Append(modes, Mode)
    /\ i' = i + 1
    /\ UNCHANGED <<markdown, lines, spoilerContent, inSpoiler, pc, second>>
    /\ UNCHANGED subVars /\ UNCHANGED retVars
    /\ UNCHANGED otherVars

\* Variant: the spoiler buffer is not reset when a spoiler opens.
ScanOutsideNoReset ==
    /\ pc = "scan" /\ i <= Len(lines) /\ ~inSpoiler /\ ~inTopLevelCode
    /\ LET line == lines[i]
           trimmedLine == TrimSpace(line) IN
       /\ modes' = Append(modes, Mode)
       /\ IF HasPrefix(trimmedLine, SpoilerFence)
          THEN /\ inSpoiler' = TRUE
               /\ spoilerContent' = spoilerContent \o WithNewline(line, i, Len(lines))
               /\ UNCHANGED <<inTopLevelCode, result>>
          ELSE IF HasPrefix(trimmedLine, Fence)
          THEN /\ inTopLevelCode' = TRUE
               /\ result' = result \o WithNewline(line, i, Len(lines))
               /\ UNCHANGED <<inSpoiler, spoilerContent>>
          ELSE /\ result' = result \o WithNewline(line, i, Len(lines))
               /\ UNCHANGED <<inSpoiler, inTopLevelCode, spoilerContent>>
    /\ i' = i + 1
    /\ UNCHANGED <<markdown, lines, pc, second>>
    /\ UNCHANGED subVars /\ UNCHANGED retVars
    /\ UNCHANGED otherVars

\* Loop body, final else branch (neither flag set).
ScanOutside ==
    /\ pc = "scan" /\ i <= Len(lines) /\ ~inSpoiler /\ ~inTopLevelCode
    /\ LET line == lines[i]
           trimmedLine == TrimSpace(line) IN
       /\ modes' = Append(modes, Mode)
       /\ IF HasPrefix(trimmedLine, SpoilerFence)
          THEN /\ inSpoiler' = TRUE
               /\ spoilerContent' = WithNewline(line, i, Len(lines))
               /\ UNCHANGED <<inTopLevelCode, result>>
          ELSE IF HasPrefix(trimmedLine, Fence)
          THEN /\ inTopLevelCode' = TRUE
               /\ result' = result \o WithNewline(line, i, Len(lines))
               /\ UNCHANGED <<inSpoiler, spoilerContent>>
          ELSE /\ result' = result \o WithNewline(line, i, Len(lines))
               /\ UNCHANGED <<inSpoiler, inTopLevelCode, spoilerContent>>
    /\ i' = i + 1
    /\ UNCHANGED <<markdown, lines, pc, second>>
    /\ UNCHANGED subVars /\ UNCHANGED retVars
    /\ UNCHANGED otherVars

\* After the loop: unclosed blocks fail, otherwise the result is returned.
Finish ==
    /\ pc = "scan" /\ i > Len(lines)
    /\ IF Unclosed(inSpoiler, inTopLevelCode)
       THEN retText' = OnFailure(markdown, result) /\ retOk' = FALSE
       ELSE retText' = result /\ retOk' = TRUE
    /\ pc' = "done"
    /\ UNCHANGED <<markdown, lines, i, modes, second>>
    /\ UNCHANGED escVars /\ UNCHANGED subVars
    /\ UNCHANGED otherVars

----------------------------------------------------------------------------
(* processSpoilerContent, called from the inSpoiler branch; a failure makes *)
(* _EscapeMarkdown return (markdown, false) at once, a success is appended  *)
(* to result and the top-level loop goes on.                                *)

\* Entry checks of processSpoilerContent.
SubCheck ==
    /\ pc = "sub_check"
    /\ LET trimmedBlock == TrimSpace(spoilerBlock)
           ls == Split(trimmedBlock)
           numLines == Len(ls) IN
       IF trimmedBlock = <<>>
       THEN \* returns ("", true)
            /\ pc' = "scan" /\ i' = i + 1
            /\ UNCHANGED <<result, sLines, j, sResult, inNestedCode,
                           fenceBalance, retText, retOk>>
       ELSE IF \/ numLines = 0 \/ ~HasPrefix(ls[1], SpoilerFence)
               \/ numLines < 2 \/ ls[numLines] # Fence
       THEN \* returns (spoilerBlock, false)
            /\ pc' = "done" /\ retText' = OnFailure(markdown, result) /\ retOk' = FALSE
            /\ UNCHANGED <<i, result, sLines, j, sResult, inNestedCode,
                           fenceBalance>>
       ELSE /\ sLines' = ls
            /\ sResult' = ls[1] \o NL
            /\ inNestedCode' = FALSE
            /\ fenceBalance' = 0
            /\ j' = 2
            /\ pc' = "sub_loop"
            /\ UNCHANGED <<i, result, retText, retOk>>
    /\ UNCHANGED <<markdown, lines, spoilerContent, inSpoiler, inTopLevelCode,
                   spoilerBlock, modes, second>>
    /\ UNCHANGED otherVars

\* One iteration over an interior line of the spoiler block.
SubLine ==
    /\ pc = "sub_loop" /\ j < Len(sLines)
    /\ LET line == sLines[j]
           trimmedLine == TrimSpace(line) IN
       IF ~inNestedCode
       THEN IF HasPrefix(trimmedLine, Fence)
            THEN IF fenceBalance # 0
                 THEN /\ pc' = "done" /\ retText' = OnFailure(markdown, result) /\ retOk' = FALSE
                      /\ UNCHANGED <<j, sResult, inNestedCode, fenceBalance>>
                 ELSE /\ fenceBalance' = 1
                      /\ inNestedCode' = TRUE
                      /\ sResult' = sResult \o Tildes \o TrimPrefix(line, Fence) \o NL
                      /\ j' = j + 1
                      /\ UNCHANGED <<pc, retText, retOk>>
            ELSE /\ sResult' = sResult \o line \o NL
                 /\ j' = j + 1
                 /\ UNCHANGED <<pc, retText, retOk, inNestedCode, fenceBalance>>
       ELSE IF trimmedLine = Fence
            THEN IF fenceBalance # 1
                 THEN /\ pc' = "done" /\ retText' = OnFailure(markdown, result) /\ retOk' = FALSE
                      /\ UNCHANGED <<j, sResult, inNestedCode, fenceBalance>>
                 ELSE /\ fenceBalance' = 0
                      /\ inNestedCode' = FALSE
                      /\ sResult' = sResult \o Tildes \o NL
                      /\ j' = j + 1
                      /\ UNCHANGED <<pc, retText, retOk>>
            ELSE /\ sResult' = sResult \o line \o NL
                 /\ j' = j + 1
                 /\ UNCHANGED <<pc, retText, retOk, inNestedCode, fenceBalance>>
    /\ UNCHANGED <<markdown, lines, i, spoilerBlock, sLines, modes, second>>
    /\ UNCHANGED escVars
    /\ UNCHANGED otherVars

\* After the interior loop: an open nested fence fails, otherwise the closing
\* fence is written and the processed block is appended by the caller.
SubFinish ==
    /\ pc = "sub_loop" /\ j >= Len(sLines)
    /\ IF NestedOpen(inNestedCode, fenceBalance)
       THEN /\ pc' = "done" /\ retText' = OnFailure(markdown, result) /\ retOk' = FALSE
            /\ UNCHANGED <<i, result>>
       ELSE /\ result' = result \o sResult \o sLines[Len(sLines)]
            /\ i' = i + 1
            /\ pc' = "scan"
            /\ UNCHANGED <<retText, retOk>>
    /\ UNCHANGED <<markdown, lines, spoilerContent, inSpoiler, inTopLevelCode,
                   modes, second>>
    /\ UNCHANGED subVars
    /\ UNCHANGED otherVars

----------------------------------------------------------------------------
\* The transform applied once more to the text of a successful call.
Reapply ==
    /\ pc = "done" /\ retOk /\ ~second
    /\ markdown' = retText
    /\ lines' = Split(retText)
    /\ i' = 1
    /\ result' = <<>>
    /\ spoilerContent' = <<>>
    /\ inSpoiler' = FALSE
    /\ inTopLevelCode' = FALSE
    /\ spoilerBlock' = <<>>
    /\ sLines' = <<>>
    /\ j' = 0
    /\ sResult' = <<>>
    /\ inNestedCode' = FALSE
    /\ fenceBalance' = 0
    /\ pc' = "scan"
    /\ retText' = <<>>
    /\ retOk' = FALSE
    /\ modes' = <<>>
    /\ second' = TRUE
    /\ UNCHANGED otherVars

Next ==
    \/ ScanInSpoiler
    \/ ScanInTopLevelCode
    \/ ScanOutside
    \/ Finish
    \/ SubCheck
    \/ SubLine
    \/ SubFinish
    \/ Reapply

Spec == Init /\ [][Next]_vars

----------------------------------------------------------------------------
(* Properties of _EscapeMarkdown *)

Done == pc = "done"

IsFenceLine(line) == HasPrefix(TrimSpace(line), Fence)
IsSpoilerOpener(line) == HasPrefix(TrimSpace(line), SpoilerFence)
IsBareFence(line) == TrimSpace(line) = Fence

\* C1: whenever the call returns ok = false, the returned text is the input,
\* whichever failure path was taken.
IdentityOnFailure == (Done /\ ~retOk) => retText = markdown

\* A later spoiler fails in the sub-processor after an earlier spoiler was
\* processed and written to result.
IdentityOnFailureWitness ==
    /\ Done /\ ~retOk /\ retText = markdown
    /\ result # <<>> /\ result # markdown
    /\ modes[Len(modes)] = "InSpoiler" /\ ~inSpoiler
    /\ \E k \in 1..(Len(modes) - 1) :
          modes[k] = "InSpoiler" /\ modes[k + 1] = "Outside"

\* C2: the text of a successful call is a fixed point: the call applied to it
\* returns it unchanged.
Idempotence == (Done /\ second) => retText = markdown

\* The expected output of C3: the inner fence pair turned to tildes.
NestedExpected(ls) ==
    LET n == Len(ls) IN
    Join([k \in 1..n |->
            IF k = 2 THEN Tildes \o TrimPrefix(ls[k], Fence)
            ELSE IF k = n - 1 THEN Tildes
            ELSE ls[k]])

\* A spoiler opener, a nested code block (tagged opening fence, content lines,
\* bare closing fence) and the spoiler's bare closing fence.
IsNestedFenceDoc(ls) ==
    LET n == Len(ls) IN
    /\ n >= 4
    /\ HasPrefix(ls[1], SpoilerFence)
    /\ HasPrefix(ls[2], Fence) /\ ls[2] # Fence
    /\ \A k \in 3..(n - 2) : ~IsFenceLine(ls[k])
    /\ ls[n - 1] = Fence
    /\ ls[n] = Fence

\* C3: a spoiler holding one nested code block is accepted and its inner
\* fence pair is rewritten to tildes, the outer fences being kept.
NestedFenceRewrite ==
    (Done /\ IsNestedFenceDoc(lines)) =>
        (retOk /\ retText = NestedExpected(lines))

\* Output line k is input line k rewritten from a backtick to a tilde fence
\* inside a spoiler.
IsRewrittenFence(outLine, k) ==
    /\ modes[k] = "InSpoiler"
    /\ HasPrefix(lines[k], Fence)
    /\ outLine = Tildes \o TrimPrefix(lines[k], Fence)

\* C4: on success the output has as many lines as the input and every line
\* that is not a rewritten nested fence is the input line at that position.
LineStructurePreserved ==
    (Done /\ retOk) =>
        LET outLines == Split(retText) IN
        /\ Len(outLines) = Len(lines)
        /\ \A k \in 1..Len(lines) :
              outLines[k] = lines[k] \/ IsRewrittenFence(outLines[k], k)

\* C5: an input without any fence line is returned unchanged with ok = true.
NoOpOnPlainText ==
    (Done /\ \A k \in 1..Len(lines) : ~IsFenceLine(lines[k])) =>
        (retOk /\ retText = markdown)

\* A plain text of several lines, one of them blank, has been returned.
NoOpOnPlainTextWitness ==
    /\ Done /\ retOk /\ retText = markdown
    /\ Len(lines) >= 3
    /\ \A k \in 1..Len(lines) : ~IsFenceLine(lines[k])
    /\ \E k \in 1..Len(lines) : lines[k] # <<>>

\* Exactly one spoiler block: opener, interior lines without fences, bare
\* closing fence as the last line.
IsSimpleSpoiler(ls) ==
    LET n == Len(ls) IN
    /\ n >= 2
    /\ IsSpoilerOpener(ls[1])
    /\ \A k \in 2..(n - 1) : ~IsFenceLine(ls[k])
    /\ ls[n] = Fence

\* C6: a document that is exactly one spoiler block without a nested fence
\* is accepted and returned unchanged.
BalancedSimpleCase ==
    (Done /\ IsSimpleSpoiler(lines)) => (retOk /\ retText = markdown)

\* A block opened at line k in state Outside has no closing line after it.
OpenedAndNeverClosed ==
    \E k \in 1..Len(modes) :
        /\ modes[k] = "Outside"
        /\ IsFenceLine(lines[k])
        /\ \A m \in (k + 1)..Len(lines) : ~IsBareFence(lines[m])

\* C7: a call that ends the scan in a state other than Outside (a spoiler or
\* a top-level code block opened and never closed) returns ok = false.
EndOfInputBalance ==
    Done => /\ (Mode # "Outside" => ~retOk)
            /\ (OpenedAndNeverClosed => ~retOk)

\* The scan has ended inside a top-level code block after writing output.
EndOfInputBalanceWitness ==
    /\ Done /\ ~retOk /\ i > Len(lines)
    /\ Mode = "InTopLevelCode"
    /\ OpenedAndNeverClosed
    /\ Len(lines) >= 3

\* Line k, scanned inside a spoiler, opens a nested fence, and the spoiler's
\* closing fence follows it.
NestedFenceInClosedSpoiler ==
    \E k \in 1..Len(modes) :
        /\ modes[k] = "InSpoiler"
        /\ IsFenceLine(lines[k]) /\ ~IsBareFence(lines[k])
        /\ \E m \in (k + 1)..Len(lines) : IsBareFence(lines[m])

\* C8: a spoiler whose interior opens a nested fence that is not closed before
\* the spoiler's closing fence makes the call return the input with ok = false.
UnclosedNestedFence ==
    (Done /\ NestedFenceInClosedSpoiler) => (~retOk /\ retText = markdown)

\* The sub-processor has scanned a nested opening fence and failed at the end
\* of the interior.
UnclosedNestedFenceWitness ==
    /\ Done /\ ~retOk /\ NestedFenceInClosedSpoiler
    /\ inNestedCode /\ fenceBalance = 1
    /\ j = Len(sLines)
    /\ retText = markdown

\* C9: every line of a top-level code block, from its opening line to its
\* closing line, is written to the output unchanged and never opens a spoiler.
TopLevelCodePassthrough ==
    [][ (/\ pc = "scan" /\ i <= Len(lines)
         /\ \/ Mode = "InTopLevelCode"
            \/ Mode = "Outside" /\ IsFenceLine(lines[i])
                                /\ ~IsSpoilerOpener(lines[i]))
        => /\ result' = result \o lines[i]
                          \o (IF i < Len(lines) THEN NL ELSE <<>>)
           /\ Mode' # "InSpoiler"
           /\ spoilerContent' = spoilerContent
           /\ Mode' = IF Mode = "InTopLevelCode" /\ IsBareFence(lines[i])
                      THEN "Outside" ELSE "InTopLevelCode" ]_vars

\* A spoiler opener and a tagged fence were scanned inside a top-level code
\* block that was then closed, and the call returned the input.
TopLevelCodePassthroughWitness ==
    /\ Done /\ retOk /\ retText = markdown
    /\ \E k \in 1..Len(modes) :
          modes[k] = "InTopLevelCode" /\ IsSpoilerOpener(lines[k])
    /\ \E k \in 1..Len(modes) :
          /\ modes[k] = "InTopLevelCode"
          /\ IsFenceLine(lines[k]) /\ ~IsSpoilerOpener(lines[k])
          /\ ~IsBareFence(lines[k])

\* C10: the flags inSpoiler and inTopLevelCode are never both set, and either
\* flag is set only in a step that starts with both clear.
ModeMutualExclusion ==
    /\ [](~(inSpoiler /\ inTopLevelCode))
    /\ [][ ((inSpoiler' /\ ~inSpoiler) \/ (inTopLevelCode' /\ ~inTopLevelCode))
           => (~inSpoiler /\ ~inTopLevelCode) ]_vars

\* A spoiler is open after a top-level code block has been opened and closed.
ModeMutualExclusionWitness ==
    /\ pc = "scan" /\ inSpoiler /\ ~inTopLevelCode
    /\ \E k \in 1..Len(modes) : modes[k] = "InTopLevelCode"

----------------------------------------------------------------------------
(* processSpoilerContent invoked on its own, on an arbitrary buffer.  The   *)
(* function's locals are the variables spoilerBlock, sLines, j, sResult,    *)
(* inNestedCode and fenceBalance; modes records the value of inNestedCode   *)
(* with which each interior line was scanned.                               *)

MaxBufLines == 5

BufLineSet ==
    { <<>>,                          \* blank line
      <<" ">>,                       \* line of whitespace
      <<"x">>,                       \* plain text
      Fence,                         \* bare fence
      Fence \o <<"g">>,              \* fence with a language tag
      <<" ">> \o Fence \o <<"g">>,   \* tagged fence with leading blank
      SpoilerFence }                 \* spoiler opener

Buffers == { Join(ls) : ls \in UNION { [1..n -> BufLineSet] : n \in 1..MaxBufLines } }

\* Entry of processSpoilerContent: either an immediate return or the state
\* in which the interior loop starts.
SubStart(block) ==
    LET trimmedBlock == TrimSpace(block)
        ls == Split(trimmedBlock)
        numLines == Len(ls) IN
    IF trimmedBlock = <<>>
    THEN [kind |-> "return", text |-> <<>>, ok |-> TRUE]
    ELSE IF \/ numLines = 0 \/ ~HasPrefix(ls[1], SpoilerFence)
            \/ numLines < 2 \/ ls[numLines] # Fence
    THEN [kind |-> "return", text |-> block, ok |-> FALSE]
    ELSE [kind |-> "loop", lines |-> ls, result |-> ls[1] \o NL]

\* Variant: opening a nested block does not set fenceBalance.
InteriorLineNoBalance(st, line) ==
    LET trimmedLine == TrimSpace(line) IN
    IF ~st.inNestedCode
    THEN IF HasPrefix(trimmedLine, Fence)
         THEN IF st.fenceBalance # 0
              THEN [st EXCEPT !.failed = TRUE]
              ELSE [result |-> st.result \o Tildes \o TrimPrefix(line, Fence) \o NL,
                    inNestedCode |-> TRUE, fenceBalance |-> st.fenceBalance, failed |-> FALSE]
         ELSE [st EXCEPT !.result = st.result \o line \o NL]
    ELSE IF trimmedLine = Fence
         THEN IF st.fenceBalance # 1
              THEN [st EXCEPT !.failed = TRUE]
              ELSE [result |-> st.result \o Tildes \o NL,
                    inNestedCode |-> FALSE, fenceBalance |-> 0, failed |-> FALSE]
         ELSE [st EXCEPT !.result = st.result \o line \o NL]

\* Body of the interior loop of processSpoilerContent on one line; failed
\* stands for the return (spoilerBlock, false) inside the loop.
InteriorLine(st, line) ==
    LET trimmedLine == TrimSpace(line) IN
    IF ~st.inNestedCode
    THEN IF HasPrefix(trimmedLine, Fence)
         THEN IF st.fenceBalance # 0
              THEN [st EXCEPT !.failed = TRUE]
              ELSE [result |-> st.result \o Tildes \o TrimPrefix(line, Fence) \o NL,
                    inNestedCode |-> TRUE, fenceBalance |-> 1, failed |-> FALSE]
         ELSE [st EXCEPT !.result = st.result \o line \o NL]
    ELSE IF trimmedLine = Fence
         THEN IF st.fenceBalance # 1
              THEN [st EXCEPT !.failed = TRUE]
              ELSE [result |-> st.result \o Tildes \o NL,
                    inNestedCode |-> FALSE, fenceBalance |-> 0, failed |-> FALSE]
         ELSE [st EXCEPT !.result = st.result \o line \o NL]

\* End of processSpoilerContent, after the interior loop.
SubEnd(block, st, lastLine) ==
    IF NestedOpen(st.inNestedCode, st.fenceBalance)
    THEN [text |-> block, ok |-> FALSE]
    ELSE [text |-> st.result \o lastLine, ok |-> TRUE]

subIdle ==
    /\ markdown = <<>> /\ lines = <<>> /\ i = 0 /\ result = <<>>
    /\ spoilerContent = <<>> /\ inSpoiler = FALSE /\ inTopLevelCode = FALSE
    /\ second = FALSE
    /\ procs = <<>> /\ call = <<>> /\ value = <<>> /\ table = <<>>
    /\ section = <<>> /\ history = <<>>

subFrame == <<markdown, lines, i, result, spoilerContent, inSpoiler,
              inTopLevelCode, second, procs, call, value, table, section, history>>

InitSub ==
    /\ spoilerBlock \in Buffers
    /\ sLines = <<>>
    /\ j = 0
    /\ sResult = <<>>
    /\ inNestedCode = FALSE
    /\ fenceBalance = 0
    /\ pc = "psc_check"
    /\ retText = <<>>
    /\ retOk = FALSE
    /\ modes = <<>>
    /\ subIdle

PscCheck ==
    /\ pc = "psc_check"
    /\ LET s == SubStart(spoilerBlock) IN
       IF s.kind = "return"
       THEN /\ pc' = "psc_done" /\ retText' = s.text /\ retOk' = s.ok
            /\ UNCHANGED <<sLines, j, sResult>>
       ELSE /\ sLines' = s.lines
            /\ sResult' = s.result
            /\ j' = 2
            /\ pc' = "psc_loop"
            /\ UNCHANGED <<retText, retOk>>
    /\ UNCHANGED <<spoilerBlock, inNestedCode, fenceBalance, modes>>
    /\ UNCHANGED subFrame

PscLine ==
    /\ pc = "psc_loop" /\ j < Len(sLines)
    /\ LET st == InteriorLine([result |-> sResult, inNestedCode |-> inNestedCode,
                               fenceBalance |-> fenceBalance, failed |-> FALSE],
                              sLines[j]) IN
       IF st.failed
       THEN /\ pc' = "psc_done" /\ retText' = spoilerBlock /\ retOk' = FALSE
            /\ UNCHANGED <<j, sResult, inNestedCode, fenceBalance>>
       ELSE /\ sResult' = st.result
            /\ inNestedCode' = st.inNestedCode
            /\ fenceBalance' = st.fenceBalance
            /\ j' = j + 1
            /\ UNCHANGED <<pc, retText, retOk>>
    /\ modes' = Append(modes, inNestedCode)
    /\ UNCHANGED <<spoilerBlock, sLines>>
    /\ UNCHANGED subFrame

PscFinish ==
    /\ pc = "psc_loop" /\ j >= Len(sLines)
    /\ LET r == SubEnd(spoilerBlock,
                       [result |-> sResult, inNestedCode |-> inNestedCode,
                        fenceBalance |-> fenceBalance, failed |-> FALSE],
                       sLines[Len(sLines)]) IN
       /\ retText' = r.text /\ retOk' = r.ok
    /\ pc' = "psc_done"
    /\ UNCHANGED <<spoilerBlock, sLines, j, sResult, inNestedCode,
                   fenceBalance, modes>>
    /\ UNCHANGED subFrame

NextSub == PscCheck \/ PscLine \/ PscFinish

SpecSub == InitSub /\ [][NextSub]_vars

PscDone == pc = "psc_done"

\* C19: the sub-processor fails and returns the buffer unchanged unless the
\* buffer's first line is a spoiler opener and its last line is the bare fence.
SubBoundaryCheck ==
    LET ls == Split(spoilerBlock) IN
    (PscDone /\ ~(IsSpoilerOpener(ls[1]) /\ ls[Len(ls)] = Fence))
        => (~retOk /\ retText = spoilerBlock)

\* Interior line k + 1 opens a fence with a language tag while a nested fence
\* is open.
OpensFenceInsideNested ==
    \E k \in 1..Len(modes) :
        /\ modes[k]
        /\ IsFenceLine(sLines[k + 1]) /\ ~IsBareFence(sLines[k + 1])

\* C20: a fence opened while a nested fence is already open makes the
\* sub-processor fail: such a buffer never yields ok = true.
SingleLevelNesting == (PscDone /\ OpensFenceInsideNested) => ~retOk

\* Interior line k + 1 is a bare fence scanned while no nested fence is open.
StrayClosingFence ==
    \E k \in 1..Len(modes) : ~modes[k] /\ IsBareFence(sLines[k + 1])

\* C21: a bare fence met in the interior while no nested fence is open makes
\* the sub-processor fail, whatever lines follow it.
StrayCloseFails == (PscDone /\ StrayClosingFence) => ~retOk

----------------------------------------------------------------------------
(* Block and heading helpers.  Each action is one call of a helper on      *)
(* arguments drawn from bounded sets; call records the function and its     *)
(* arguments, value the string it returned.  The helpers keep no state, so  *)
(* a behaviour holds one call.                                              *)

MaxTextLen == 4
MaxLevel == 8

TextChars == {BT, "x", "\n"}
Texts == UNION { [1..n -> TextChars] : n \in 0..MaxTextLen }
Headings == { <<>>, <<"h">> }
Languages == { <<>>, <<"g">> }
Levels == (1 - MaxLevel)..MaxLevel

\* strings.Contains
Contains(s, sub) ==
    \E k \in 1..(Len(s) - Len(sub) + 1) : SubSeq(s, k, k + Len(sub) - 1) = sub

\* Variant: strings.Replace(s, old, new, 1), only the first occurrence.
RECURSIVE ReplaceFirst(_, _, _)
ReplaceFirst(s, old, new) ==
    IF Len(s) = 0 THEN s
    ELSE IF HasPrefix(s, old) THEN new \o SubSeq(s, Len(old) + 1, Len(s))
    ELSE <<Head(s)>> \o ReplaceFirst(Tail(s), old, new)

\* strings.ReplaceAll (old not empty): the non-overlapping occurrences of old,
\* found from left to right, are replaced by new.
RECURSIVE ReplaceAll(_, _, _)
ReplaceAll(s, old, new) ==
    IF Len(s) = 0 THEN s
    ELSE IF HasPrefix(s, old)
    THEN new \o ReplaceAll(SubSeq(s, Len(old) + 1, Len(s)), old, new)
    ELSE <<Head(s)>> \o ReplaceAll(Tail(s), old, new)

\* strings.Repeat for count >= 0.
RECURSIVE Repeat(_, _)
Repeat(s, count) == IF count = 0 THEN <<>> ELSE s \o Repeat(s, count - 1)

\* The EscapeMarkdown the helpers call: it returns its argument.
EscapeMarkdown(v) == v

WriteSpoiler(sb, heading, text) ==
    LET processedText == IF Contains(text, Fence)
                         THEN ReplaceAll(text, Fence, Tildes)
                         ELSE text IN
    sb \o Fence \o <<"s", "p", "o", "i", "l", "e", "r", " ">> \o heading \o NL
       \o processedText \o NL \o Fence

Spoiler(heading, text) == WriteSpoiler(<<>>, heading, text)

SpoilerEscaped(heading, text, fence) ==
    fence \o <<"s", "p", "o", "i", "l", "e", "r">> \o <<" ">> \o heading \o NL
          \o EscapeMarkdown(text) \o NL \o fence

SpoilerEscapedFence(heading, text) == SpoilerEscaped(heading, text, Fence)

WriteCodeBlock(sb, language, text) ==
    sb \o Fence \o language \o NL \o EscapeMarkdown(text) \o NL \o Fence

CodeBlock(language, text) == WriteCodeBlock(<<>>, language, text)

Heading(level, text) ==
    LET lvl == IF level < 1 \/ level > 6 THEN 1 ELSE level IN
    Repeat(<<"#">>, lvl) \o <<" ">> \o text

\* H1 .. H6
H(n, text) == Heading(n, text)

libIdle ==
    /\ markdown = <<>> /\ lines = <<>> /\ i = 0 /\ result = <<>>
    /\ spoilerContent = <<>> /\ inSpoiler = FALSE /\ inTopLevelCode = FALSE
    /\ spoilerBlock = <<>> /\ sLines = <<>> /\ j = 0 /\ sResult = <<>>
    /\ inNestedCode = FALSE /\ fenceBalance = 0 /\ pc = "lib"
    /\ retText = <<>> /\ retOk = FALSE /\ modes = <<>> /\ second = FALSE
    /\ procs = <<>> /\ table = <<>> /\ section = <<>>
    /\ history = <<>>

libFrame == <<markdown, lines, i, result, spoilerContent, inSpoiler,
              inTopLevelCode, spoilerBlock, sLines, j, sResult, inNestedCode,
              fenceBalance, pc, retText, retOk, modes, second, procs, table,
              section, history>>

InitLib ==
    /\ call = [fn |-> "none"]
    /\ value = <<>>
    /\ libIdle

CallSpoiler ==
    /\ call.fn = "none"
    /\ \E h \in Headings, t \in Texts :
          /\ call' = [fn |-> "Spoiler", heading |-> h, text |-> t]
          /\ value' = Spoiler(h, t)
    /\ UNCHANGED libFrame

CallSpoilerEscapedFence ==
    /\ call.fn = "none"
    /\ \E h \in Headings, t \in Texts :
          /\ call' = [fn |-> "SpoilerEscapedFence", heading |-> h, text |-> t]
          /\ value' = SpoilerEscapedFence(h, t)
    /\ UNCHANGED libFrame

CallCodeBlock ==
    /\ call.fn = "none"
    /\ \E l \in Languages, t \in Texts :
          /\ call' = [fn |-> "CodeBlock", language |-> l, text |-> t]
          /\ value' = CodeBlock(l, t)
    /\ UNCHANGED libFrame

\* Spoiler(heading, CodeBlock(language, text))
CallSpoilerOfCodeBlock ==
    /\ call.fn = "none"
    /\ \E h \in Headings, l \in Languages, t \in Texts :
          /\ call' = [fn |-> "SpoilerOfCodeBlock", heading |-> h,
                      language |-> l, text |-> t]
          /\ value' = Spoiler(h, CodeBlock(l, t))
    /\ UNCHANGED libFrame

CallHeading ==
    /\ call.fn = "none"
    /\ \E n \in Levels, t \in Headings :
          /\ call' = [fn |-> "Heading", level |-> n, text |-> t]
          /\ value' = Heading(n, t)
    /\ UNCHANGED libFrame

CallH ==
    /\ call.fn = "none"
    /\ \E n \in 1..6, t \in Headings :
          /\ call' = [fn |-> "H", level |-> n, text |-> t]
          /\ value' = H(n, t)
    /\ UNCHANGED libFrame

\* strings.Repeat panics when count is negative.
RepeatPanics(count) == count < 0

\* ListItem, when its strings.Repeat returns.
ListItem(text, level) ==
    Repeat(<<" ", " ">>, level) \o <<"-", " ">> \o text

\* ChecklistItem, when its strings.Repeat returns.
ChecklistItem(text, checked, level) ==
    LET checkmark == IF checked THEN <<"[", "x", "]">> ELSE <<"[", " ", "]">> IN
    Repeat(<<" ", " ">>, level) \o <<"-", " ">> \o checkmark \o <<" ">> \o text

\* panicked records that the call ended in a panic and returned nothing.
CallListItem ==
    /\ call.fn = "none"
    /\ \E n \in Levels, t \in Headings :
          /\ call' = [fn |-> "ListItem", level |-> n, text |-> t,
                      panicked |-> RepeatPanics(n)]
          /\ value' = IF RepeatPanics(n) THEN <<>> ELSE ListItem(t, n)
    /\ UNCHANGED libFrame

CallChecklistItem ==
    /\ call.fn = "none"
    /\ \E n \in Levels, t \in Headings, c \in BOOLEAN :
          /\ call' = [fn |-> "ChecklistItem", level |-> n, text |-> t,
                      checked |-> c, panicked |-> RepeatPanics(n)]
          /\ value' = IF RepeatPanics(n) THEN <<>> ELSE ChecklistItem(t, c, n)
    /\ UNCHANGED libFrame

NextLib ==
    \/ CallSpoiler
    \/ CallSpoilerEscapedFence
    \/ CallCodeBlock
    \/ CallSpoilerOfCodeBlock
    \/ CallHeading
    \/ CallH
    \/ CallListItem
    \/ CallChecklistItem

SpecLib == InitLib /\ [][NextLib]_vars

SpoilerWord == <<"s", "p", "o", "i", "l", "e", "r", " ">>

HasSuffix(s, p) == Len(s) >= Len(p) /\ SubSeq(s, Len(s) - Len(p) + 1, Len(s)) = p

\* The part of s between the prefix p and the suffix q.
Between(s, p, q) == SubSeq(s, Len(p) + 1, Len(s) - Len(q))

\* c is t with every backtick fence replaced by tildes: nothing else is
\* changed, every changed character lies in a fence of t that became tildes,
\* and no fence is left.
IsFenceReplaced(c, t) ==
    /\ Len(c) = Len(t)
    /\ ~Contains(c, Fence)
    /\ \A k \in 1..Len(t) :
          \/ c[k] = t[k]
          \/ \E m \in (k - 2)..k :
                /\ m >= 1 /\ m + 2 <= Len(t)
                /\ SubSeq(t, m, m + 2) = Fence
                /\ SubSeq(c, m, m + 2) = Tildes
    /\ ~Contains(t, Fence) => c = t

SpoilerEscapedFenceIsSpoiler ==
    call.fn = "SpoilerEscapedFence" => value = Spoiler(call.heading, call.text)

\* The level Heading is said to use: level clamped to 1..6.
ClampedLevel(level) == IF level < 1 THEN 1 ELSE IF level > 6 THEN 6 ELSE level

\* C17: Heading(level, text) is as many # as the level clamped to 1..6, a
\* space and the text; H1..H6 are Heading(1..6, text).
HeadingClamps ==
    /\ call.fn = "Heading" =>
          value = Repeat(<<"#">>, ClampedLevel(call.level)) \o <<" ">> \o call.text
    /\ call.fn = "H" =>
          value = Repeat(<<"#">>, call.level) \o <<" ">> \o call.text

\* The body a block helper places between its opening line and its closing
\* fence.
BlockBody(block, opening) == Between(block, opening, NL \o Fence)

\* C14: the body that CodeBlock and SpoilerEscaped emit for a text is the text
\* the fence-escaping transform returns for it, so a spoiler with a balanced
\* nested code block comes out with its inner fences as tildes.
HelpersApplyTransform ==
    Done =>
        LET code == BlockBody(CodeBlock(<<"g">>, markdown), Fence \o <<"g">> \o NL)
            spoiler == BlockBody(SpoilerEscaped(<<"h">>, markdown, Fence),
                                 Fence \o SpoilerWord \o <<"h">> \o NL) IN
        /\ code = retText
        /\ spoiler = retText
        /\ IsNestedFenceDoc(lines) => code = NestedExpected(lines)

----------------------------------------------------------------------------
(* TableBuilder.  table is the struct; headerBuilder, a function in the     *)
(* code, is the name of the style it applies.  call is the method called    *)
(* last, with its arguments when it set alignments, and value the string    *)
(* it returned when it was Build.                                           *)

MaxHeaders == 2
MaxRows == 1
MaxCells == 2

AlignDefault == ""
AlignLeft == "left"
AlignCenter == "center"
AlignRight == "right"
Alignments == {AlignDefault, AlignLeft, AlignCenter, AlignRight}

HeaderName == <<"N">>
CellText == <<"a">>

\* Argument lists of the variadic methods.
HeaderLists(n) == UNION { [1..k -> {HeaderName}] : k \in 0..n }
CellLists == UNION { [1..k -> {CellText}] : k \in 0..MaxCells }
RowLists(n) == UNION { [1..k -> CellLists] : k \in 0..n }
AlignmentLists ==
    { [k \in 1..n |-> IF k % 2 = 1 THEN AlignCenter ELSE AlignRight] :
        n \in 0..(MaxHeaders + 1) }

NewTableBuilder ==
    [headers |-> <<>>, rows |-> <<>>, alignments |-> <<>>,
     headerBuilder |-> "plain"]

\* The functions headerBuilder is set to: the default one, the one of
\* WithBoldHeaders and a caller's own (italic).
ApplyHeaderBuilder(style, h) ==
    IF style = "bold" THEN <<"*", "*">> \o h \o <<"*", "*">>
    ELSE IF style = "italic" THEN <<"*">> \o h \o <<"*">>
    ELSE h

\* The loop of WithHeaders that appends AlignDefault for the new headers.
RECURSIVE PadAlignments(_, _)
PadAlignments(alignments, n) ==
    IF Len(alignments) >= n THEN alignments
    ELSE PadAlignments(Append(alignments, AlignDefault), n)

\* Variant: no alignment is added for the new headers.
WithHeadersUnpadded(t, headers) ==
    [t EXCEPT !.headers = t.headers \o headers]

WithHeaders(t, headers) ==
    LET hs == t.headers \o headers IN
    [t EXCEPT !.headers = hs, !.alignments = PadAlignments(t.alignments, Len(hs))]

WithHeaderStyle(t, style) == [t EXCEPT !.headerBuilder = style]

WithBoldHeaders(t) == WithHeaderStyle(t, "bold")

AddRow(t, cells) == [t EXCEPT !.rows = Append(t.rows, cells)]

RECURSIVE AddRows(_, _)
AddRows(t, rows) ==
    IF Len(rows) = 0 THEN t ELSE AddRows(AddRow(t, Head(rows)), Tail(rows))

\* Variant: a column beyond the alignments is created, with the alignments
\* before it at their default.
SetAlignmentGrow(t, column, alignment) ==
    IF column >= 0
    THEN [t EXCEPT !.alignments =
             [PadAlignments(t.alignments, column + 1) EXCEPT ![column + 1] = alignment]]
    ELSE t

\* column counts from 0, as in the code.
SetAlignment(t, column, alignment) ==
    IF column >= 0 /\ column < Len(t.alignments)
    THEN [t EXCEPT !.alignments[column + 1] = alignment]
    ELSE t

SetAlignments(t, alignments) ==
    [t EXCEPT !.alignments =
        [k \in 1..Len(t.alignments) |->
            IF k <= Len(alignments) THEN alignments[k] ELSE t.alignments[k]]]

PipeOpen == <<"|", " ">>
PipeSep == <<" ", "|", " ">>
PipeClose == <<" ", "|", "\n">>

AlignmentMarker(alignment) ==
    IF alignment = AlignLeft THEN <<":", "-", "-", "-">>
    ELSE IF alignment = AlignCenter THEN <<":", "-", "-", "-", ":">>
    ELSE IF alignment = AlignRight THEN <<"-", "-", "-", ":">>
    ELSE <<"-", "-", "-">>

\* The loops over the headers and over the alignments in Build, from index k.
RECURSIVE HeaderCells(_, _, _)
HeaderCells(t, k, acc) ==
    IF k > Len(t.headers) THEN acc
    ELSE HeaderCells(t, k + 1,
            acc \o (IF k > 1 THEN PipeSep ELSE <<>>)
                \o ApplyHeaderBuilder(t.headerBuilder, t.headers[k]))

RECURSIVE SeparatorCells(_, _, _)
SeparatorCells(t, k, acc) ==
    IF k > Len(t.alignments) THEN acc
    ELSE SeparatorCells(t, k + 1,
            acc \o (IF k > 1 THEN PipeSep ELSE <<>>)
                \o AlignmentMarker(t.alignments[k]))

\* The loop over the cells of a row in Build, from index k: a cell beyond
\* the headers gets its separator but not its text.
RECURSIVE RowCells(_, _, _, _)
RowCells(row, n, k, acc) ==
    IF k > Len(row) THEN acc
    ELSE RowCells(row, n, k + 1,
            acc \o (IF k > 1 THEN PipeSep ELSE <<>>)
                \o (IF k <= n THEN row[k] ELSE <<>>))

\* The loop that adds the empty cells of a row with fewer cells than headers.
RowPadding(row, n) ==
    IF Len(row) < n THEN Repeat(PipeSep, n - Len(row)) ELSE <<>>

RowLine(row, n) ==
    PipeOpen \o RowCells(row, n, 1, <<>>) \o RowPadding(row, n) \o PipeClose

RECURSIVE RowLines(_, _, _, _)
RowLines(t, k, n, acc) ==
    IF k > Len(t.rows) THEN acc
    ELSE RowLines(t, k + 1, n, acc \o RowLine(t.rows[k], n))

\* TableBuilder.Build
TableBuild(t) ==
    IF Len(t.headers) = 0 THEN <<>>
    ELSE PipeOpen \o HeaderCells(t, 1, <<>>) \o PipeClose
         \o PipeOpen \o SeparatorCells(t, 1, <<>>) \o PipeClose
         \o RowLines(t, 1, Len(t.headers), <<>>)

tableIdle ==
    /\ markdown = <<>> /\ lines = <<>> /\ i = 0 /\ result = <<>>
    /\ spoilerContent = <<>> /\ inSpoiler = FALSE /\ inTopLevelCode = FALSE
    /\ spoilerBlock = <<>> /\ sLines = <<>> /\ j = 0 /\ sResult = <<>>
    /\ inNestedCode = FALSE /\ fenceBalance = 0 /\ pc = "table"
    /\ retText = <<>> /\ retOk = FALSE /\ modes = <<>> /\ second = FALSE
    /\ procs = <<>> /\ section = <<>> /\ history = <<>>

tableFrame == <<markdown, lines, i, result, spoilerContent, inSpoiler,
                inTopLevelCode, spoilerBlock, sLines, j, sResult,
                inNestedCode, fenceBalance, pc, retText, retOk, modes, second,
                procs, section, history>>

InitTable ==
    /\ table = NewTableBuilder
    /\ call = [fn |-> "NewTableBuilder", args |-> <<>>]
    /\ value = <<>>
    /\ tableIdle

\* A builder method other than Build has been called and has returned the
\* builder.
Returned(t) ==
    /\ table' = t
    /\ value' = <<>>
    /\ UNCHANGED tableFrame

DoWithHeaders ==
    /\ call' = [fn |-> "WithHeaders", args |-> <<>>]
    /\ \E hs \in HeaderLists(MaxHeaders - Len(table.headers)) :
          Returned(WithHeaders(table, hs))

DoWithHeaderStyle ==
    /\ call' = [fn |-> "WithHeaderStyle", args |-> <<>>]
    /\ Returned(WithHeaderStyle(table, "italic"))

DoWithBoldHeaders ==
    /\ call' = [fn |-> "WithBoldHeaders", args |-> <<>>]
    /\ Returned(WithBoldHeaders(table))

DoAddRow ==
    /\ Len(table.rows) < MaxRows
    /\ call' = [fn |-> "AddRow", args |-> <<>>]
    /\ \E cells \in CellLists : Returned(AddRow(table, cells))

DoAddRows ==
    /\ call' = [fn |-> "AddRows", args |-> <<>>]
    /\ \E rows \in RowLists(MaxRows - Len(table.rows)) :
          Returned(AddRows(table, rows))

DoSetAlignment ==
    /\ value' = <<>>
    /\ \E column \in (-1)..MaxHeaders, a \in Alignments :
          /\ call' = [fn |-> "SetAlignment", args |-> <<column, a>>]
          /\ table' = SetAlignment(table, column, a)
    /\ UNCHANGED tableFrame

DoSetAlignments ==
    /\ value' = <<>>
    /\ \E as \in AlignmentLists :
          /\ call' = [fn |-> "SetAlignments", args |-> as]
          /\ table' = SetAlignments(table, as)
    /\ UNCHANGED tableFrame

DoBuild ==
    /\ call' = [fn |-> "Build", args |-> <<>>]
    /\ value' = TableBuild(table)
    /\ UNCHANGED table
    /\ UNCHANGED tableFrame

NextTable ==
    \/ DoWithHeaders
    \/ DoWithHeaderStyle
    \/ DoWithBoldHeaders
    \/ DoAddRow
    \/ DoAddRows
    \/ DoSetAlignment
    \/ DoSetAlignments
    \/ DoBuild

SpecTable == InitTable /\ [][NextTable]_vars

\* Number of | characters in a string.
RECURSIVE Pipes(_)
Pipes(str) ==
    IF Len(str) = 0 THEN 0
    ELSE (IF Head(str) = "|" THEN 1 ELSE 0) + Pipes(Tail(str))

\* The given cells followed by empty cells up to n cells, between pipes.
PaddedRow(row, n) ==
    LET cells == [k \in 1..n |-> IF k <= Len(row) THEN row[k] ELSE <<>>]
        cellsText[k \in 1..n] ==
            IF k = 1 THEN cells[1] ELSE cellsText[k - 1] \o PipeSep \o cells[k] IN
    <<"|", " ">> \o cellsText[n] \o <<" ", "|">>

\* C15: in the built table the line of a row with fewer cells than headers
\* holds the given cells followed by empty cells, n cells in all, with as
\* many | as the header line.
BuildPadsShortRows ==
    (call.fn = "Build" /\ Len(table.headers) >= 1) =>
        LET out == Split(value)
            n == Len(table.headers) IN
        \A r \in 1..Len(table.rows) :
            Len(table.rows[r]) < n =>
                /\ out[2 + r] = PaddedRow(table.rows[r], n)
                /\ Pipes(out[2 + r]) = Pipes(out[1])

----------------------------------------------------------------------------
(* Section.  section is the struct and history the calls made on it, the    *)
(* constructor first, Build left out; table is the TableBuilder the caller  *)
(* hands to AddTable.                                                       *)

MaxItems == 3
MaxNumber == 10

Titles == { <<>>, <<"T">> }
ItemText == <<"t">>
Numbers == {-1, 0, MaxNumber}

Digits == <<"0", "1", "2", "3", "4", "5", "6", "7", "8", "9">>

RECURSIVE FormatNat(_)
FormatNat(n) ==
    IF n < 10 THEN <<Digits[n + 1]>>
    ELSE FormatNat(n \div 10) \o <<Digits[(n % 10) + 1]>>

\* strconv.Itoa
Itoa(n) == IF n < 0 THEN <<"-">> \o FormatNat(0 - n) ELSE FormatNat(n)

\* The level NewSection stores, with levels outside 1..6 set to 1.
NewSectionLevelReset(level) == IF level < 1 \/ level > 6 THEN 1 ELSE level

\* The level NewSection stores.
NewSectionLevel(level) ==
    IF level < 1 THEN 1 ELSE IF level > 6 THEN 6 ELSE level

NewSection(level, title) ==
    [Level |-> NewSectionLevel(level), Title |-> title, Content |-> <<>>]

SectionAddBullet(s, text) ==
    [s EXCEPT !.Content = Append(s.Content, <<"*", " ">> \o text)]

SectionAddNumberedItem(s, number, text) ==
    [s EXCEPT !.Content = Append(s.Content, Itoa(number) \o <<".", " ">> \o text)]

SectionAddText(s, text) == [s EXCEPT !.Content = Append(s.Content, text)]

\* Variant: AddTable keeps the header and separator rows of the table only.
SectionAddTableNoRows(s, t) ==
    [s EXCEPT !.Content = Append(s.Content, TableBuild([t EXCEPT !.rows = <<>>]))]

SectionAddTable(s, t) == [s EXCEPT !.Content = Append(s.Content, TableBuild(t))]

\* The loop over the content in Section.Build, from index k.
RECURSIVE ContentLines(_, _, _)
ContentLines(content, k, acc) ==
    IF k > Len(content) THEN acc
    ELSE ContentLines(content, k + 1, acc \o content[k] \o <<"\n">>)

\* Section.Build without its final newline.
SectionBuildNoFinalNewline(s) ==
    Repeat(<<"#">>, s.Level) \o <<" ">> \o s.Title \o <<"\n", "\n">>
        \o ContentLines(s.Content, 1, <<>>)

\* Section.Build
SectionBuild(s) ==
    Repeat(<<"#">>, s.Level) \o <<" ">> \o s.Title \o <<"\n", "\n">>
        \o ContentLines(s.Content, 1, <<>>) \o <<"\n">>

sectionIdle ==
    /\ markdown = <<>> /\ lines = <<>> /\ i = 0 /\ result = <<>>
    /\ spoilerContent = <<>> /\ inSpoiler = FALSE /\ inTopLevelCode = FALSE
    /\ spoilerBlock = <<>> /\ sLines = <<>> /\ j = 0 /\ sResult = <<>>
    /\ inNestedCode = FALSE /\ fenceBalance = 0 /\ pc = "section"
    /\ retText = <<>> /\ retOk = FALSE /\ modes = <<>> /\ second = FALSE
    /\ procs = <<>>

sectionFrame == <<markdown, lines, i, result, spoilerContent, inSpoiler,
                  inTopLevelCode, spoilerBlock, sLines, j, sResult,
                  inNestedCode, fenceBalance, pc, retText, retOk, modes,
                  second, procs>>

InitSection ==
    /\ \E level \in Levels, title \in Titles :
          /\ section = NewSection(level, title)
          /\ history = << [op |-> "NewSection", level |-> level, title |-> title] >>
    /\ table = WithHeaders(NewTableBuilder, <<HeaderName>>)
    /\ call = "NewSection"
    /\ value = <<>>
    /\ sectionIdle

\* A method other than Build has been called on the section and has returned
\* it.
Added(s, entry) ==
    /\ section' = s
    /\ history' = Append(history, entry)
    /\ value' = <<>>
    /\ UNCHANGED table
    /\ UNCHANGED sectionFrame

DoAddText ==
    /\ Len(section.Content) < MaxItems
    /\ call' = "AddText"
    /\ Added(SectionAddText(section, ItemText),
             [op |-> "AddText", text |-> ItemText])

DoAddBullet ==
    /\ Len(section.Content) < MaxItems
    /\ call' = "AddBullet"
    /\ Added(SectionAddBullet(section, ItemText),
             [op |-> "AddBullet", text |-> ItemText])

DoAddNumberedItem ==
    /\ Len(section.Content) < MaxItems
    /\ call' = "AddNumberedItem"
    /\ \E number \in Numbers :
          Added(SectionAddNumberedItem(section, number, ItemText),
                [op |-> "AddNumberedItem", number |-> number, text |-> ItemText])

DoAddTable ==
    /\ Len(section.Content) < MaxItems
    /\ call' = "AddTable"
    /\ Added(SectionAddTable(section, table),
             [op |-> "AddTable", table |-> table])

\* The caller adds a row to its table between two calls on the section.
DoTableAddRow ==
    /\ Len(table.rows) < MaxRows
    /\ table' = AddRow(table, <<CellText>>)
    /\ UNCHANGED <<section, history, call, value>>
    /\ UNCHANGED sectionFrame

\* The caller adds a header to its table.
DoTableWithHeaders ==
    /\ Len(table.headers) < MaxHeaders
    /\ table' = WithHeaders(table, <<HeaderName>>)
    /\ UNCHANGED <<section, history, call, value>>
    /\ UNCHANGED sectionFrame

\* The caller makes the headers of its table bold.
DoTableWithBoldHeaders ==
    /\ table.headerBuilder # "bold"
    /\ table' = WithBoldHeaders(table)
    /\ UNCHANGED <<section, history, call, value>>
    /\ UNCHANGED sectionFrame

\* The caller aligns the first column of its table to the right.
DoTableSetAlignment ==
    /\ table.alignments[1] # AlignRight
    /\ table' = SetAlignment(table, 0, AlignRight)
    /\ UNCHANGED <<section, history, call, value>>
    /\ UNCHANGED sectionFrame

DoSectionBuild ==
    /\ call' = "Build"
    /\ value' = SectionBuild(section)
    /\ UNCHANGED <<section, history, table>>
    /\ UNCHANGED sectionFrame

NextSection ==
    \/ DoAddText
    \/ DoAddBullet
    \/ DoAddNumberedItem
    \/ DoAddTable
    \/ DoTableAddRow
    \/ DoSectionBuild

SpecSection == InitSection /\ [][NextSection]_vars

\* Number of # characters s starts with.
RECURSIVE LeadingHashes(_)
LeadingHashes(str) ==
    IF Len(str) > 0 /\ Head(str) = "#" THEN 1 + LeadingHashes(Tail(str)) ELSE 0

\* C16: NewSection keeps a level in 1..6, stores 1 for a level below 1 and 6
\* for a level above 6, and Build of the section just constructed starts
\* with that many #, between 1 and 6, followed by a space.
NewSectionLimitsLevel ==
    LET level == history[1].level IN
    /\ level < 1 => section.Level = 1
    /\ level > 6 => section.Level = 6
    /\ level \in 1..6 => section.Level = level
    /\ (call = "Build" /\ Len(history) = 1) =>
          /\ LeadingHashes(value) = section.Level
          /\ LeadingHashes(value) \in 1..6
          /\ value[LeadingHashes(value) + 1] = " "

NewSectionLimitsLevelWitness ==
    /\ call = "Build"
    /\ Len(history) = 1
    /\ history[1].level > 6
    /\ LeadingHashes(value) = 6

\* The string Build is to hold for one call of the history.
ItemOf(entry) ==
    IF entry.op = "AddBullet" THEN <<"*", " ">> \o entry.text
    ELSE IF entry.op = "AddNumberedItem"
         THEN Itoa(entry.number) \o <<".", " ">> \o entry.text
    ELSE IF entry.op = "AddTable" THEN TableBuild(entry.table)
    ELSE entry.text

ItemsOf(calls) ==
    LET upTo[k \in 0..Len(calls)] ==
            IF k = 0 THEN <<>>
            ELSE upTo[k - 1] \o ItemOf(calls[k]) \o <<"\n">> IN
    upTo[Len(calls)]

\* C18: what Build returns is Level #, a space, the title and two newlines,
\* then the item of every Add call in the order of the calls, each followed
\* by a newline, then one newline; Build leaves the section as it was and a
\* Build right after a Build returns the same string.
SectionBuildInOrder ==
    /\ [](call = "Build" =>
            value = Repeat(<<"#">>, section.Level) \o <<" ">> \o history[1].title
                      \o <<"\n", "\n">> \o ItemsOf(Tail(history)) \o <<"\n">>)
    /\ [][call' = "Build" =>
            /\ section' = section
            /\ call = "Build" => value' = value]_vars

SectionBuildInOrderWitness ==
    /\ call = "Build"
    /\ Len(history) = MaxItems + 1
    /\ \E a, b \in 2..Len(history) :
          /\ a < b
          /\ history[a].op = "AddNumberedItem"
          /\ history[b].op = "AddTable"
          /\ Len(history[b].table.rows) > 0
    /\ \E c \in 2..Len(history) : history[c].op = "AddBullet"

----------------------------------------------------------------------------
(* Concurrent invocations of _EscapeMarkdown.  procs[p] holds the           *)
(* parameter, the local variables and the returned pair of invocation p;    *)
(* the function declares its builders and flags on entry and the package    *)
(* has no variable of its own, so a step of p reads and writes procs[p]     *)
(* alone.  A step is one iteration of the loop over the lines, with the     *)
(* call of processSpoilerContent it may make.                               *)

NumProcs == 2

Procs == 1..NumProcs

ConcDocs ==
    { Join(ls) : ls \in
        { << <<"x">> >>,
          << Fence \o <<"g">>, <<"x">>, Fence >>,
          << SpoilerFence, <<"x">>, Fence >>,
          << SpoilerFence, Fence \o <<"g">>, Fence >>,
          << SpoilerFence, <<"x">> >>,
          << <<"x">>, SpoilerFence, Fence, <<"x">> >> } }

\* The interior loop of processSpoilerContent over ls[k] .. ls[Len(ls) - 1].
RECURSIVE InteriorLoop(_, _, _)
InteriorLoop(ls, k, st) ==
    IF k >= Len(ls) \/ st.failed THEN st
    ELSE InteriorLoop(ls, k + 1, InteriorLine(st, ls[k]))

\* processSpoilerContent
ProcessSpoilerContent(block) ==
    LET s == SubStart(block) IN
    IF s.kind = "return" THEN [text |-> s.text, ok |-> s.ok]
    ELSE LET st == InteriorLoop(s.lines, 2,
                      [result |-> s.result, inNestedCode |-> FALSE,
                       fenceBalance |-> 0, failed |-> FALSE]) IN
         IF st.failed THEN [text |-> block, ok |-> FALSE]
         ELSE SubEnd(block, st, s.lines[Len(s.lines)])

\* Entry of _EscapeMarkdown: the locals as declared.
Start(md) ==
    [markdown |-> md, lines |-> Split(md), i |-> 1, result |-> <<>>,
     spoilerContent |-> <<>>, inSpoiler |-> FALSE, inTopLevelCode |-> FALSE,
     pc |-> "scan", text |-> <<>>, ok |-> FALSE]

Return(loc, text, ok) == [loc EXCEPT !.pc = "done", !.text = text, !.ok = ok]

\* One iteration of the loop of _EscapeMarkdown on the locals loc.
EscLine(loc) ==
    LET line == loc.lines[loc.i]
        trimmedLine == TrimSpace(line)
        written == WithNewline(line, loc.i, Len(loc.lines))
        next == [loc EXCEPT !.i = loc.i + 1] IN
    IF loc.inSpoiler
    THEN LET content == loc.spoilerContent \o written IN
         IF trimmedLine = Fence
         THEN LET processed == ProcessSpoilerContent(content) IN
              IF ~processed.ok
              THEN Return(loc, OnFailure(loc.markdown, loc.result), FALSE)
              ELSE [next EXCEPT !.spoilerContent = content,
                                !.inSpoiler = FALSE,
                                !.result = loc.result \o processed.text]
         ELSE [next EXCEPT !.spoilerContent = content]
    ELSE IF loc.inTopLevelCode
    THEN [next EXCEPT !.result = loc.result \o written,
                      !.inTopLevelCode = (trimmedLine # Fence)]
    ELSE IF HasPrefix(trimmedLine, SpoilerFence)
    THEN [next EXCEPT !.inSpoiler = TRUE, !.spoilerContent = written]
    ELSE IF HasPrefix(trimmedLine, Fence)
    THEN [next EXCEPT !.inTopLevelCode = TRUE, !.result = loc.result \o written]
    ELSE [next EXCEPT !.result = loc.result \o written]

\* After the loop of _EscapeMarkdown.
EscEnd(loc) ==
    IF Unclosed(loc.inSpoiler, loc.inTopLevelCode)
    THEN Return(loc, OnFailure(loc.markdown, loc.result), FALSE)
    ELSE Return(loc, loc.result, TRUE)

\* _EscapeMarkdown run from entry to return with nothing else running.
RECURSIVE RunToReturn(_)
RunToReturn(loc) ==
    IF loc.pc = "done" THEN loc
    ELSE RunToReturn(IF loc.i <= Len(loc.lines) THEN EscLine(loc) ELSE EscEnd(loc))

RunAlone(md) == LET r == RunToReturn(Start(md)) IN <<r.text, r.ok>>

\* Variant: result and spoilerContent are builders of the package, which
\* every invocation reads where the first one left them.
LocalsSharedBuilders(ps, p) ==
    [ps[p] EXCEPT !.result = ps[1].result,
                  !.spoilerContent = ps[1].spoilerContent]

\* The variables a step of invocation p works on.
Locals(ps, p) == ps[p]

concIdle ==
    /\ markdown = <<>> /\ lines = <<>> /\ i = 0 /\ result = <<>>
    /\ spoilerContent = <<>> /\ inSpoiler = FALSE /\ inTopLevelCode = FALSE
    /\ spoilerBlock = <<>> /\ sLines = <<>> /\ j = 0 /\ sResult = <<>>
    /\ inNestedCode = FALSE /\ fenceBalance = 0 /\ pc = "conc"
    /\ retText = <<>> /\ retOk = FALSE /\ modes = <<>> /\ second = FALSE
    /\ call = <<>> /\ value = <<>> /\ table = <<>> /\ section = <<>>
    /\ history = <<>>

concFrame == <<markdown, lines, i, result, spoilerContent, inSpoiler,
               inTopLevelCode, spoilerBlock, sLines, j, sResult,
               inNestedCode, fenceBalance, pc, retText, retOk, modes, second,
               call, value, table, section, history>>

InitConc ==
    /\ procs \in [Procs -> { Start(md) : md \in ConcDocs }]
    /\ concIdle

\* Invocation p runs one iteration of its loop.
ConcLine(p) ==
    /\ procs[p].pc = "scan"
    /\ procs[p].i <= Len(procs[p].lines)
    /\ procs' = [procs EXCEPT ![p] = EscLine(Locals(procs, p))]
    /\ UNCHANGED concFrame

\* Invocation p leaves its loop and returns.
ConcEnd(p) ==
    /\ procs[p].pc = "scan"
    /\ procs[p].i > Len(procs[p].lines)
    /\ procs' = [procs EXCEPT ![p] = EscEnd(Locals(procs, p))]
    /\ UNCHANGED concFrame

\* The call site of p, whose invocation has returned, calls again.
ConcCall(p) ==
    /\ procs[p].pc = "done"
    /\ \E md \in ConcDocs : procs' = [procs EXCEPT ![p] = Start(md)]
    /\ UNCHANGED concFrame

NextConc ==
    \E p \in Procs :
        \/ ConcLine(p)
        \/ ConcEnd(p)
        \/ ConcCall(p)

SpecConc == InitConc /\ [][NextConc]_vars

\* C11: however the invocations interleave and whatever ran before at the
\* same call site, an invocation that has returned has returned the pair it
\* returns for its input when it runs alone.
ConcurrentAsAlone ==
    \A p \in Procs :
        procs[p].pc = "done" =>
            <<procs[p].text, procs[p].ok>> = RunAlone(procs[p].markdown)

ConcurrentAsAloneWitness ==
    \E p, q \in Procs :
        /\ procs[p].pc = "done" /\ procs[p].ok
        /\ Contains(procs[p].text, SpoilerFence)
        /\ procs[q].pc = "scan" /\ procs[q].inSpoiler /\ procs[q].i > 1
        /\ procs[q].spoilerContent # <<>>
        /\ procs[q].markdown # procs[p].markdown

----------------------------------------------------------------------------
(* Further properties of processSpoilerContent, under SpecSub.              *)

\* C22: when the sub-processor succeeds, an interior line that opened a
\* nested block is emitted as ~~~ followed by its language tag, one that
\* closed a nested block as ~~~, neither holds a backtick fence any more, and
\* every other interior line is emitted as it was.
NestedFencesConverted ==
    (PscDone /\ retOk /\ Len(sLines) >= 2) =>
        LET out == Split(retText) IN
        /\ Len(out) = Len(sLines)
        /\ \A k \in 2..(Len(sLines) - 1) :
              LET line == sLines[k]
                  nested == modes[k - 1] IN
              IF ~nested /\ IsFenceLine(line)
              THEN /\ TrimSpace(out[k]) = Tildes \o TrimPrefix(TrimSpace(line), Fence)
                   /\ ~Contains(out[k], Fence)
              ELSE IF nested /\ IsBareFence(line)
              THEN TrimSpace(out[k]) = Tildes
              ELSE out[k] = line

----------------------------------------------------------------------------
(* _EscapeMarkdown on documents made of whole blocks, so that a document    *)
(* holds several spoilers: the actions are those of Spec.                   *)

MaxBlocks == 3

BlockSet ==
    { << <<"x">> >>,                                       \* text line
      << <<>> >>,                                          \* blank line
      << Fence \o <<"g">>, <<"x">>, Fence >>,              \* code block
      << SpoilerFence, Fence >>,                           \* empty spoiler
      << SpoilerFence \o <<" ", "h">>, <<"x">>, Fence >>,  \* spoiler with text
      << SpoilerFence, Fence \o <<"g">>, Fence >>,         \* spoiler, nested opener
      << SpoilerFence, <<"x">> >> }                        \* unclosed spoiler

RECURSIVE Flatten(_)
Flatten(blocks) ==
    IF Len(blocks) = 0 THEN <<>> ELSE Head(blocks) \o Flatten(Tail(blocks))

BlockDocs ==
    { Join(Flatten(bs)) : bs \in UNION { [1..n -> BlockSet] : n \in 1..MaxBlocks } }

InitBlocks ==
    /\ markdown \in BlockDocs
    /\ lines = Split(markdown)
    /\ i = 1
    /\ result = <<>>
    /\ spoilerContent = <<>>
    /\ inSpoiler = FALSE
    /\ inTopLevelCode = FALSE
    /\ spoilerBlock = <<>>
    /\ sLines = <<>>
    /\ j = 0
    /\ sResult = <<>>
    /\ inNestedCode = FALSE
    /\ fenceBalance = 0
    /\ pc = "scan"
    /\ retText = <<>>
    /\ retOk = FALSE
    /\ modes = <<>>
    /\ second = FALSE
    /\ procs = <<>>
    /\ call = <<>>
    /\ value = <<>>
    /\ table = <<>>
    /\ section = <<>>
    /\ history = <<>>

SpecBlocks == InitBlocks /\ [][Next]_vars

\* Lines a .. b of the input as the scan writes them: each followed by a
\* newline unless it is the last line of the input.
RECURSIVE Written(_, _)
Written(a, b) ==
    IF a > b THEN <<>>
    ELSE lines[a] \o (IF a < Len(lines) THEN NL ELSE <<>>) \o Written(a + 1, b)

\* The line that opened the spoiler to which the scanned line k belongs.
OpenerOf(k) ==
    CHOOSE m \in 1..k :
        /\ modes[m] = "Outside" /\ IsSpoilerOpener(lines[m])
        /\ \A n \in (m + 1)..k : modes[n] = "InSpoiler"

\* Scanned line k closed a spoiler.
ClosesSpoiler(k) == modes[k] = "InSpoiler" /\ IsBareFence(lines[k])

\* What the scanned lines 1 .. k are to have put in the output: a line
\* outside spoilers itself, a closing line the processed form of its spoiler.
RECURSIVE OutputOf(_)
OutputOf(k) ==
    IF k = 0 THEN <<>>
    ELSE OutputOf(k - 1) \o
         (IF ClosesSpoiler(k)
          THEN ProcessSpoilerContent(Written(OpenerOf(k), k)).text
          ELSE IF modes[k] = "InSpoiler" \/ (modes[k] = "Outside" /\ IsSpoilerOpener(lines[k]))
          THEN <<>>
          ELSE Written(k, k))

\* C23: the buffer holds the lines of the open spoiler only, from its opener
\* on; the sub-processor is entered at the closing line of a spoiler and
\* nowhere else, on the lines of that spoiler, and the scan goes on with the
\* next line after it; a successful call returns the lines outside spoilers
\* and the processed spoilers in input order.
SpoilersInOrder ==
    /\ []((pc = "scan" /\ inSpoiler) =>
            spoilerContent = Written(OpenerOf(i - 1), i - 1))
    /\ [](pc = "sub_check" =>
            /\ ClosesSpoiler(i)
            /\ spoilerBlock = Written(OpenerOf(i), i))
    /\ []((Done /\ retOk) => retText = OutputOf(Len(lines)))
    /\ [][(pc' = "sub_check") <=>
            (pc = "scan" /\ inSpoiler /\ i <= Len(lines) /\ IsBareFence(lines[i]))]_vars
    /\ [][(pc \in {"sub_check", "sub_loop"} /\ pc' = "scan") => i' = i + 1]_vars

SpoilersInOrderWitness ==
    /\ Done /\ retOk /\ ~second
    /\ \E a, b, c \in 1..Len(lines) :
          /\ a < b /\ b < c
          /\ ClosesSpoiler(a) /\ ClosesSpoiler(c)
          /\ modes[b] = "Outside" /\ ~IsSpoilerOpener(lines[b])
    /\ retText # <<>>

\* C26: in the interior scan fenceBalance is 0 or 1, and 1 exactly when
\* inNestedCode is set; the scan is never left by a failure inside the loop:
\* a call that fails after its entry checks fails at the end of the scan.
BinaryFenceBalance ==
    /\ [](/\ fenceBalance \in {0, 1}
          /\ (fenceBalance = 1) <=> inNestedCode)
    /\ [][(pc = "psc_loop" /\ pc' = "psc_done" /\ ~retOk') =>
            (j >= Len(sLines) /\ inNestedCode)]_vars

BinaryFenceBalanceWitness ==
    /\ pc = "psc_loop"
    /\ j >= Len(sLines)
    /\ ~inNestedCode
    /\ \E k \in 1..Len(modes) : modes[k]

----------------------------------------------------------------------------
(* Further properties of TableBuilder, under SpecTable.                     *)

\* The parts of s between the occurrences of sep.
RECURSIVE SplitBy(_, _)
SplitBy(s, sep) ==
    LET at == { k \in 1..(Len(s) - Len(sep) + 1) : SubSeq(s, k, k + Len(sep) - 1) = sep } IN
    IF at = {} THEN <<s>>
    ELSE LET k == CHOOSE k \in at : \A m \in at : k <= m IN
         <<SubSeq(s, 1, k - 1)>> \o SplitBy(SubSeq(s, k + Len(sep), Len(s)), sep)

\* The cells of a line of a built table.
LineCells(line) == SplitBy(SubSeq(line, 3, Len(line) - 2), PipeSep)

\* C24: SetAlignment with a column below 0 or not below the number of
\* headers leaves the builder as it was; SetAlignments changes the
\* alignments of the existing columns only, its further entries doing
\* nothing; a column that WithHeaders creates has the default alignment
\* whatever was set for its index before, and Build gives it the ---
\* separator.
AlignmentOutsideColumnsIgnored ==
    /\ [][(/\ call'.fn = "SetAlignment"
           /\ (call'.args[1] < 0 \/ call'.args[1] >= Len(table.headers)))
              => table' = table]_vars
    /\ [][call'.fn = "SetAlignments" =>
            /\ table'.headers = table.headers
            /\ table'.rows = table.rows
            /\ Len(table'.alignments) = Len(table.headers)
            /\ \A k \in 1..Len(table.headers) :
                  table'.alignments[k] =
                      IF k <= Len(call'.args) THEN call'.args[k]
                      ELSE table.alignments[k]]_vars
    /\ [][call'.fn = "WithHeaders" =>
            \A k \in (Len(table.headers) + 1)..Len(table'.headers) :
                table'.alignments[k] = AlignDefault]_vars
    /\ []((call.fn = "Build" /\ Len(table.headers) >= 1) =>
            \A k \in 1..Len(table.headers) :
                table.alignments[k] = AlignDefault =>
                    LineCells(Split(value)[2])[k] = <<"-", "-", "-">>)

\* SetAlignment has been called for a column that does not exist yet.
AlignmentOutsideColumnsIgnoredWitness ==
    /\ call.fn = "SetAlignment"
    /\ call.args[1] >= Len(table.headers)
    /\ call.args[2] = AlignRight
    /\ Len(table.headers) >= 1
    /\ \E k \in 1..Len(table.headers) : table.alignments[k] = AlignCenter

----------------------------------------------------------------------------
(* Further properties of _EscapeMarkdown, under Spec.                       *)

\* Scanned line k lies inside a spoiler, between its opener and its closer.
SpoilerInterior(k) == modes[k] = "InSpoiler" /\ ~IsBareFence(lines[k])

AlignmentsMatchHeaders ==
    /\ [](Len(table.alignments) = Len(table.headers))
    /\ []((call.fn = "Build" /\ Len(table.headers) >= 1) =>
            LET out == Split(value) IN
            /\ Len(LineCells(out[1])) = Len(table.headers)
            /\ Len(LineCells(out[2])) = Len(table.headers)
            /\ Pipes(out[2]) = Pipes(out[1]))
    /\ [][call'.fn = "WithHeaders" =>
            \A k \in 1..Len(table.alignments) :
                table'.alignments[k] = table.alignments[k]]_vars

\* WithHeaders has added a column to one whose alignment had been set.
AlignmentsMatchHeadersWitness ==
    /\ call.fn = "WithHeaders"
    /\ Len(table.headers) = MaxHeaders
    /\ table.alignments[1] = AlignRight
    /\ table.alignments[MaxHeaders] = AlignDefault

\* C28: in the built table the line of a row with more cells than headers
\* holds the first n cells only, in n columns, with as many | as the header
\* line.
BuildTruncatesLongRows ==
    (call.fn = "Build" /\ Len(table.headers) >= 1) =>
        LET out == Split(value)
            n == Len(table.headers) IN
        \A r \in 1..Len(table.rows) :
            Len(table.rows[r]) > n =>
                /\ LineCells(out[2 + r]) = SubSeq(table.rows[r], 1, n)
                /\ Pipes(out[2 + r]) = Pipes(out[1])

----------------------------------------------------------------------------
(* A Section and the TableBuilder its caller goes on changing: the section  *)
(* gets texts and the table, the table gets rows, headers, a header style   *)
(* and an alignment between the calls on the section.                       *)

InitSectionTable ==
    /\ section = NewSection(1, <<"T">>)
    /\ history = << [op |-> "NewSection", level |-> 1, title |-> <<"T">>] >>
    /\ table = WithHeaders(NewTableBuilder, <<HeaderName>>)
    /\ call = "NewSection"
    /\ value = <<>>
    /\ sectionIdle

NextSectionTable ==
    \/ DoAddText
    \/ DoAddTable
    \/ DoTableAddRow
    \/ DoTableWithHeaders
    \/ DoTableWithBoldHeaders
    \/ DoTableSetAlignment
    \/ DoSectionBuild

SpecSectionTable == InitSectionTable /\ [][NextSectionTable]_vars

\* C29: the item AddTable adds is the table as built at that call; a later
\* change of the table leaves the section as it is, so what Build returns
\* holds the table of the call, not the table of now; and AddTable leaves
\* the table as it is.
AddTableCapturesBuild ==
    /\ [](\A k \in 2..Len(history) :
            history[k].op = "AddTable" =>
                section.Content[k - 1] = TableBuild(history[k].table))
    /\ [](call = "Build" =>
            value = Repeat(<<"#">>, section.Level) \o <<" ">> \o section.Title
                      \o <<"\n", "\n">> \o ItemsOf(Tail(history)) \o <<"\n">>)
    /\ [][table' # table => section' = section]_vars
    /\ [][(history' # history /\ history'[Len(history')].op = "AddTable") =>
            table' = table]_vars

\* Build after the table has got bold headers and another header since
\* AddTable.
AddTableCapturesBuildWitness ==
    /\ call = "Build"
    /\ table.headerBuilder = "bold"
    /\ \E k \in 2..Len(history) :
          /\ history[k].op = "AddTable"
          /\ history[k].table.headerBuilder = "plain"
          /\ Len(history[k].table.rows) > 0
          /\ Len(history[k].table.headers) < Len(table.headers)

----------------------------------------------------------------------------
(* Further properties of the helpers, under SpecLib.                        *)

\* n spaces, none when n is not positive.
Spaces(n) == [k \in 1..n |-> " "]

\* C30: ListItem and ChecklistItem return for every level, negative ones
\* included, and return 2 * level spaces (none for a level of 0 or less),
\* "- ", the checkbox of a checklist item, and the text.
ListItemsAlwaysReturn ==
    /\ call.fn = "ListItem" =>
          /\ ~call.panicked
          /\ value = Spaces(2 * call.level) \o <<"-", " ">> \o call.text
    /\ call.fn = "ChecklistItem" =>
          /\ ~call.panicked
          /\ value = Spaces(2 * call.level) \o <<"-", " ", "[">>
                        \o (IF call.checked THEN <<"x">> ELSE <<" ">>)
                        \o <<"]", " ">> \o call.text

====
